---- MODULE Spec2Model ----
(***************************************************************************)
(* Model of src/streamlit_app.py, the "Skin Profit Dashboard".             *)
(*                                                                         *)
(* One run of the script is modelled statement group by statement group:   *)
(* the pricing loop of the basic tab (skin_input_row called for            *)
(* i = 1..num_skins), the construction of df_basic with its Cumulative     *)
(* Money column and the totals, the editable grid of the advanced tab, the *)
(* recomputation of the derived columns from the edited grid, the          *)
(* performance ranking and the Cumulative ROI % column.  When a run has    *)
(* ended the user changes one widget and the script runs again from the    *)
(* top, as Streamlit does.                                                 *)
(*                                                                         *)
(* Numbers.  The program computes in Python floats and pandas float64      *)
(* columns.  A value is modelled as an exact rational, or one of the three *)
(* IEEE specials the pandas expressions can produce (NaN, +inf, -inf).     *)
(* Rounding of the binary representation is not modelled.                  *)
(*                                                                         *)
(* Not modelled: the expander open/closed flags (lines 44-45, 68-69), the  *)
(* custom names (enable_custom_names stays False, so the Skin column holds *)
(* the label "Skin {i}"), the chart focus widgets and the charts.          *)
(***************************************************************************)
EXTENDS Integers, Sequences, FiniteSets, TLC

(***************************************************************************)
(* Bounds of the model.                                                    *)
(***************************************************************************)
\* Largest value given to the "Enter number of skins" input.
MaxSkins == 2
\* Largest number of user edits applied to the editable grid in one run.
MaxEdits == 1

(***************************************************************************)
(* Program constants: the widgets' defaults and limits.                    *)
(***************************************************************************)
DefaultNumSkins == 2
MinNumSkins == 1
DefaultBuy == 100
DefaultSell == 150
DefaultFee == 8
MaxFee == 100

\* Values the user gives to the widgets (within the widgets' ranges).
BuyVals == {0, DefaultBuy}
SellVals == {DefaultSell}
FeeVals == {DefaultFee, MaxFee}
SellModifierVals == {-50, 0}
FeeModifierVals == {-10, 0, 10}

(***************************************************************************)
(* Float values.                                                           *)
(***************************************************************************)
Abs(x) == IF x < 0 THEN -x ELSE x

RECURSIVE GCD(_, _)
GCD(a, b) == IF b = 0 THEN a ELSE GCD(b, a % b)

\* The rational n/d (d # 0) in lowest terms with a positive denominator.
Rat(n, d) ==
    LET g == GCD(Abs(n), Abs(d))
        s == IF d < 0 THEN -1 ELSE 1
    IN [k |-> "fin", n |-> (s * n) \div g, d |-> Abs(d) \div g]

Num(i) == Rat(i, 1)
Zero == Num(0)
NaN == [k |-> "nan", n |-> 0, d |-> 1]
PInf == [k |-> "inf", n |-> 1, d |-> 1]
NInf == [k |-> "inf", n |-> -1, d |-> 1]
\* Python's None, the initial value of reinvestment_funds.
None == [k |-> "none", n |-> 0, d |-> 1]

IsFin(x) == x.k = "fin"
IsNaN(x) == x.k = "nan"
IsInf(x) == x.k = "inf"
Sign(x) == IF x.n > 0 THEN 1 ELSE IF x.n < 0 THEN -1 ELSE 0

FNeg(x) ==
    IF IsFin(x) THEN Rat(-x.n, x.d)
    ELSE IF IsInf(x) THEN [x EXCEPT !.n = -x.n]
    ELSE NaN

FAdd(x, y) ==
    IF IsNaN(x) \/ IsNaN(y) THEN NaN
    ELSE IF IsInf(x) /\ IsInf(y) THEN (IF x.n = y.n THEN x ELSE NaN)
    ELSE IF IsInf(x) THEN x
    ELSE IF IsInf(y) THEN y
    ELSE Rat(x.n * y.d + y.n * x.d, x.d * y.d)

FSub(x, y) == FAdd(x, FNeg(y))

FMul(x, y) ==
    IF IsNaN(x) \/ IsNaN(y) THEN NaN
    ELSE IF IsInf(x) \/ IsInf(y) THEN
        (IF Sign(x) * Sign(y) = 0 THEN NaN
         ELSE IF Sign(x) * Sign(y) > 0 THEN PInf ELSE NInf)
    ELSE Rat(x.n * y.n, x.d * y.d)

\* float64 division as numpy does it: x/0 is +-inf, 0/0 is NaN.
FDiv(x, y) ==
    IF IsNaN(x) \/ IsNaN(y) THEN NaN
    ELSE IF IsInf(x) /\ IsInf(y) THEN NaN
    ELSE IF IsInf(x) THEN (IF Sign(x) * Sign(y) >= 0 THEN PInf ELSE NInf)
    ELSE IF IsInf(y) THEN Zero
    ELSE IF y.n = 0 THEN
        (IF x.n = 0 THEN NaN ELSE IF x.n > 0 THEN PInf ELSE NInf)
    ELSE Rat(x.n * y.d, x.d * y.n)

\* x < y; every comparison with NaN is false.
FLt(x, y) ==
    IF IsNaN(x) \/ IsNaN(y) THEN FALSE
    ELSE IF IsInf(x) THEN x.n < 0 /\ ~(IsInf(y) /\ y.n < 0)
    ELSE IF IsInf(y) THEN y.n > 0
    ELSE x.n * y.d < y.n * x.d

\* Python's max(x, 0): 0 when 0 > x, otherwise x.
PyMax0(x) == IF FLt(x, Zero) THEN Zero ELSE x

(***************************************************************************)
(* State.                                                                  *)
(***************************************************************************)
VARIABLES
    reinvestment_mode,   \* sidebar checkbox (line 11)
    sell_modifier,       \* sidebar slider, percent (line 30)
    fee_modifier,        \* sidebar slider, percent (line 31)
    num_skins,           \* number input (line 115)
    buy, sell, fee,      \* the number inputs of rows 1..num_skins (lines 61-64)
    pc,                  \* position of the running script
    i,                   \* loop variable of line 121
    reinvestment_funds,  \* fold state of lines 117, 122
    skin_data,           \* rows appended at line 123
    df_basic,            \* the basic tab's table (lines 125-126)
    totals,              \* total_invested .. total_roi (lines 129-132)
    edited_df,           \* what st.data_editor returns (line 167)
    n_edits,             \* user edits applied to the grid in this run
    df_adv,              \* the advanced tab's table (lines 172, 191)
    ranking,             \* the performance ranking (line 176)
    fault                \* the exception that ended the run, or "none"

vars == <<reinvestment_mode, sell_modifier, fee_modifier, num_skins, buy, sell,
          fee, pc, i, reinvestment_funds, skin_data, df_basic, totals,
          edited_df, n_edits, df_adv, ranking, fault>>

widgets == <<reinvestment_mode, sell_modifier, fee_modifier, num_skins, buy,
             sell, fee>>

(***************************************************************************)
(* skin_input_row: the pricing of one item (lines 37-86).                  *)
(***************************************************************************)
\* The label of item j with custom names off: f"Skin {j}".
SkinLabel(j) == <<"Skin", j>>

\* Variant: the Buy Price input always, the reinvested funds never.
EffectiveBuyEntered(j, funds) == Num(buy[j])

\* Lines 57-61: the reinvested funds when the mode is on, the item is not the
\* first and funds are there; the Buy Price input otherwise.
EffectiveBuy(j, funds) ==
    IF reinvestment_mode /\ j > 1 /\ funds # None
    THEN funds
    ELSE Num(buy[j])

\* Line 71.
SellPriceAdj(sell_price) ==
    FMul(sell_price, FAdd(Num(1), FDiv(Num(sell_modifier), Num(100))))

\* Line 72.
FeeAdj(f) == PyMax0(FAdd(f, Num(fee_modifier)))

\* Line 73 without its max(.., 0).
NetReceivedUnclamped(sell_price_adj, fee_adj) ==
    FMul(sell_price_adj, FSub(Num(1), FDiv(fee_adj, Num(100))))

\* Line 73.
NetReceived(sell_price_adj, fee_adj) ==
    PyMax0(FMul(sell_price_adj, FSub(Num(1), FDiv(fee_adj, Num(100)))))

\* Line 74.
Profit(net, buy_price) == FSub(net, buy_price)

\* Variant: line 75 without its * 100.
RoiNoPercent(profit, buy_price) ==
    IF FLt(Zero, buy_price) THEN FDiv(profit, buy_price) ELSE Zero

\* Line 75.
Roi(profit, buy_price) ==
    IF FLt(Zero, buy_price)
    THEN FMul(FDiv(profit, buy_price), Num(100))
    ELSE Zero

\* Lines 71-86: the row returned for item j.
SkinRow(j, funds) ==
    LET buy_price == EffectiveBuy(j, funds)
        sell_price_adj == SellPriceAdj(Num(sell[j]))
        fee_adj == FeeAdj(Num(fee[j]))
        net == NetReceived(sell_price_adj, fee_adj)
        profit == Profit(net, buy_price)
        roi == Roi(profit, buy_price)
    IN [c \in {"Skin", "Skin Num", "Buy Price", "Sell Price", "Fee %",
               "Net Received", "Profit", "ROI %"} |->
          CASE c = "Skin" -> SkinLabel(j)
            [] c = "Skin Num" -> Num(j)
            [] c = "Buy Price" -> buy_price
            [] c = "Sell Price" -> sell_price_adj
            [] c = "Fee %" -> fee_adj
            [] c = "Net Received" -> net
            [] c = "Profit" -> profit
            [] c = "ROI %" -> roi]

\* Variant: the profit carried forward instead of the net proceeds.
NextFundsProfit(row) == row["Profit"]

\* Line 122: the second value skin_input_row returns is net, which becomes the
\* fold state.
NextFunds(row) == row["Net Received"]

\* The totals before line 129 has run.
NoTotals ==
    [total_invested |-> None, total_money_received |-> None,
     total_profit |-> None, total_roi |-> None]

\* The state a run starts in (lines 116-117, before the loop of line 121).
StartRun ==
    /\ pc' = "loop"
    /\ i' = 1
    /\ reinvestment_funds' = None
    /\ skin_data' = <<>>
    /\ df_basic' = <<>>
    /\ totals' = NoTotals
    /\ edited_df' = <<>>
    /\ n_edits' = 0
    /\ df_adv' = <<>>
    /\ ranking' = <<>>
    /\ fault' = "none"

Init ==
    /\ reinvestment_mode = FALSE
    /\ sell_modifier = 0
    /\ fee_modifier = 0
    /\ num_skins = DefaultNumSkins
    /\ buy = [j \in 1..DefaultNumSkins |-> DefaultBuy]
    /\ sell = [j \in 1..DefaultNumSkins |-> DefaultSell]
    /\ fee = [j \in 1..DefaultNumSkins |-> DefaultFee]
    /\ pc = "loop"
    /\ i = 1
    /\ reinvestment_funds = None
    /\ skin_data = <<>>
    /\ df_basic = <<>>
    /\ totals = NoTotals
    /\ edited_df = <<>>
    /\ n_edits = 0
    /\ df_adv = <<>>
    /\ ranking = <<>>
    /\ fault = "none"

\* Lines 121-123: one iteration of the loop.
SkinInputRow ==
    /\ pc = "loop"
    /\ i <= num_skins
    /\ LET skin_row == SkinRow(i, reinvestment_funds)
       IN /\ skin_data' = Append(skin_data, skin_row)
          /\ reinvestment_funds' = NextFunds(skin_row)
    /\ i' = i + 1
    /\ UNCHANGED <<widgets, pc, df_basic, totals, edited_df, n_edits, df_adv,
                   ranking, fault>>

(***************************************************************************)
(* pandas helpers.                                                         *)
(***************************************************************************)
\* df[c] as a sequence.
Column(df, c) == [p \in 1..Len(df) |-> df[p][c]]

\* The sum of the first p values of s, a missing value (NaN) counting as 0:
\* what pandas accumulates with skipna=True.
RECURSIVE RunningSum(_, _)
RunningSum(s, p) ==
    IF p = 0 THEN Zero
    ELSE FAdd(RunningSum(s, p - 1), IF IsNaN(s[p]) THEN Zero ELSE s[p])

\* Series.cumsum(): the running sum, NaN where the value itself is missing.
CumSum(s) ==
    [p \in 1..Len(s) |-> IF IsNaN(s[p]) THEN NaN ELSE RunningSum(s, p)]

\* Series.sum().
SeriesSum(s) == RunningSum(s, Len(s))

\* Series.fillna(0).
FillNa0(x) == IF IsNaN(x) THEN Zero ELSE x

\* df with column c set to the values of the sequence s.
WithColumn(df, c, s) == [p \in 1..Len(df) |-> (c :> s[p]) @@ df[p]]

(***************************************************************************)
(* The rest of the basic tab (lines 125-132).                              *)
(***************************************************************************)
\* Variant: each row's own Buy Price added instead of the first row's.
CumulativeMoneyOwnBuy(df) ==
    [p \in 1..Len(df) |-> FAdd(CumSum(Column(df, "Profit"))[p], df[p]["Buy Price"])]

\* Lines 126 and 171: Profit.cumsum() + Buy Price.iloc[0]; df is not empty.
CumulativeMoney(df) ==
    [p \in 1..Len(df) |-> FAdd(CumSum(Column(df, "Profit"))[p], df[1]["Buy Price"])]

\* Variant: the subtraction of line 131 the wrong way round.
TotalsSwapped(df) ==
    LET total_invested == SeriesSum(Column(df, "Buy Price"))
        total_money_received == SeriesSum(Column(df, "Net Received"))
        total_profit == FSub(total_invested, total_money_received)
    IN [total_invested |-> total_invested,
        total_money_received |-> total_money_received,
        total_profit |-> total_profit,
        total_roi |-> IF FLt(Zero, total_invested)
                      THEN FMul(FDiv(total_profit, total_invested), Num(100))
                      ELSE Zero]

\* Lines 129-132.
Totals(df) ==
    LET total_invested == SeriesSum(Column(df, "Buy Price"))
        total_money_received == SeriesSum(Column(df, "Net Received"))
        total_profit == FSub(total_money_received, total_invested)
    IN [total_invested |-> total_invested,
        total_money_received |-> total_money_received,
        total_profit |-> total_profit,
        total_roi |-> IF FLt(Zero, total_invested)
                      THEN FMul(FDiv(total_profit, total_invested), Num(100))
                      ELSE Zero]

\* Lines 125-132: the loop has ended; the table and the totals are built.
BuildBasic ==
    /\ pc = "loop"
    /\ i > num_skins
    /\ df_basic' = WithColumn(skin_data, "Cumulative Money", CumulativeMoney(skin_data))
    /\ totals' = Totals(skin_data)
    /\ pc' = "advanced"
    /\ UNCHANGED <<widgets, i, reinvestment_funds, skin_data, edited_df, n_edits,
                   df_adv, ranking, fault>>

(***************************************************************************)
(* The advanced tab (lines 160-191).                                       *)
(***************************************************************************)
\* Lines 163-167: the grid shows a copy of df_basic.
OpenEditor ==
    /\ pc = "advanced"
    /\ edited_df' = df_basic
    /\ pc' = "editor"
    /\ UNCHANGED <<widgets, i, reinvestment_funds, skin_data, df_basic, totals,
                   n_edits, df_adv, ranking, fault>>

RawColumns == {"Buy Price", "Sell Price", "Fee %"}
DerivedColumns == {"Net Received", "Profit", "ROI %", "Cumulative Money"}

\* The cell edits the user makes in the grid: a column and the number typed.
\* The Skin and Skin Num cells are left as they are.
GridEdits ==
    {<<"Buy Price", 0>>, <<"Sell Price", 200>>, <<"Fee %", 150>>}
    \cup {<<c, 7>> : c \in DerivedColumns}

\* A row added in the grid (num_rows="dynamic"): every cell is empty.
BlankRow ==
    [c \in {"Skin", "Skin Num", "Cumulative Money"} \cup RawColumns \cup DerivedColumns |->
        IF c = "Skin" THEN <<"None", 0>> ELSE NaN]

\* s without its element at position r.
RemoveAt(s, r) == [p \in 1..(Len(s) - 1) |-> IF p < r THEN s[p] ELSE s[p + 1]]

\* Line 167: the user types a number into a cell of the grid.
EditCell ==
    /\ pc = "editor"
    /\ n_edits < MaxEdits
    /\ \E r \in 1..Len(edited_df), e \in GridEdits :
          edited_df' = [edited_df EXCEPT ![r][e[1]] = Num(e[2])]
    /\ n_edits' = n_edits + 1
    /\ UNCHANGED <<widgets, pc, i, reinvestment_funds, skin_data, df_basic,
                   totals, df_adv, ranking, fault>>

\* Line 167: the user deletes a row of the grid.
DeleteRow ==
    /\ pc = "editor"
    /\ n_edits < MaxEdits
    /\ \E r \in 1..Len(edited_df) : edited_df' = RemoveAt(edited_df, r)
    /\ n_edits' = n_edits + 1
    /\ UNCHANGED <<widgets, pc, i, reinvestment_funds, skin_data, df_basic,
                   totals, df_adv, ranking, fault>>

\* Line 167: the user adds a row to the grid.
AddRow ==
    /\ pc = "editor"
    /\ n_edits < MaxEdits
    /\ edited_df' = Append(edited_df, BlankRow)
    /\ n_edits' = n_edits + 1
    /\ UNCHANGED <<widgets, pc, i, reinvestment_funds, skin_data, df_basic,
                   totals, df_adv, ranking, fault>>

\* Line 168.
EditedNet(row) ==
    FMul(row["Sell Price"], FSub(Num(1), FDiv(row["Fee %"], Num(100))))

\* Variant: a Profit cell the user set to 7 is kept.
RecomputeRowKeepProfit(row) ==
    LET net == EditedNet(row)
        profit == IF row["Profit"] = Num(7) THEN row["Profit"] ELSE FSub(net, row["Buy Price"])
        roi == FillNa0(FMul(FDiv(profit, row["Buy Price"]), Num(100)))
    IN ("Net Received" :> net) @@ ("Profit" :> profit) @@ ("ROI %" :> roi) @@ row

\* Lines 168-170: the three columns recomputed row by row.
RecomputeRow(row) ==
    LET net == EditedNet(row)
        profit == FSub(net, row["Buy Price"])
        roi == FillNa0(FMul(FDiv(profit, row["Buy Price"]), Num(100)))
    IN ("Net Received" :> net) @@ ("Profit" :> profit) @@ ("ROI %" :> roi) @@ row

\* Lines 168-171 on a grid that is not empty.
EditBack(grid) ==
    LET df == [p \in 1..Len(grid) |-> RecomputeRow(grid[p])]
    IN WithColumn(df, "Cumulative Money", CumulativeMoney(df))

\* Lines 168-172.  On an empty grid the three column assignments go through and
\* Buy Price.iloc[0] of line 171 raises IndexError, which ends the run.
Recompute ==
    /\ pc = "editor"
    /\ IF Len(edited_df) = 0
       THEN /\ pc' = "fault"
            /\ fault' = "IndexError"
            /\ UNCHANGED <<edited_df, df_adv>>
       ELSE /\ edited_df' = EditBack(edited_df)
            /\ df_adv' = edited_df'
            /\ pc' = "ranking"
            /\ UNCHANGED fault
    /\ UNCHANGED <<widgets, i, reinvestment_funds, skin_data, df_basic, totals,
                   n_edits, ranking>>

\* Whether row a may stand before row b when sorting by Profit, descending,
\* missing values last.
MayPrecede(a, b) ==
    \/ IsNaN(b["Profit"])
    \/ (~IsNaN(a["Profit"]) /\ ~FLt(a["Profit"], b["Profit"]))

\* df.sort_values(by="Profit", ascending=False): the order of ties is not
\* fixed by the sort, so every sorted arrangement is a possible result.
SortedByProfit(df) ==
    {[p \in 1..Len(df) |-> df[f[p]]] :
        f \in {g \in Permutations(1..Len(df)) :
                 \A p, q \in 1..Len(df) : p < q => MayPrecede(df[g[p]], df[g[q]])}}

\* The three columns the ranking shows.
RankingColumns(df) ==
    [p \in 1..Len(df) |-> [c \in {"Skin", "Profit", "ROI %"} |-> df[p][c]]]

\* Variant: the sort done in place.
AfterRankingInPlace(df, sorted) == sorted

\* What the ranking step leaves in df_adv: sort_values returns a new frame.
AfterRanking(df, sorted) == df

\* Line 176.
Ranking ==
    /\ pc = "ranking"
    /\ \E sorted \in SortedByProfit(df_adv) :
          /\ ranking' = RankingColumns(sorted)
          /\ df_adv' = AfterRanking(df_adv, sorted)
    /\ edited_df' = df_adv'
    /\ pc' = "cum_roi"
    /\ UNCHANGED <<widgets, i, reinvestment_funds, skin_data, df_basic, totals,
                   n_edits, fault>>

\* Line 191.
CumulativeRoi ==
    /\ pc = "cum_roi"
    /\ df_adv' = WithColumn(df_adv, "Cumulative ROI %", CumSum(Column(df_adv, "ROI %")))
    /\ edited_df' = df_adv'
    /\ pc' = "done"
    /\ UNCHANGED <<widgets, i, reinvestment_funds, skin_data, df_basic, totals,
                   n_edits, ranking, fault>>

(***************************************************************************)
(* The user changes a widget; the script runs again from the top.          *)
(***************************************************************************)
RunEnded == pc \in {"done", "fault"}

\* Line 11.
ToggleReinvestment ==
    /\ RunEnded
    /\ reinvestment_mode' = ~reinvestment_mode
    /\ UNCHANGED <<sell_modifier, fee_modifier, num_skins, buy, sell, fee>>
    /\ StartRun

\* Line 30.
SetSellModifier ==
    /\ RunEnded
    /\ \E v \in SellModifierVals \ {sell_modifier} : sell_modifier' = v
    /\ UNCHANGED <<reinvestment_mode, fee_modifier, num_skins, buy, sell, fee>>
    /\ StartRun

\* Line 31.
SetFeeModifier ==
    /\ RunEnded
    /\ \E v \in FeeModifierVals \ {fee_modifier} : fee_modifier' = v
    /\ UNCHANGED <<reinvestment_mode, sell_modifier, num_skins, buy, sell, fee>>
    /\ StartRun

\* The inputs of rows 1..n: the values of the rows that stay, the defaults of
\* lines 61-64 for the rows that are new.
Resize(values, n, default) ==
    [j \in 1..n |-> IF j <= Len(values) THEN values[j] ELSE default]

\* Line 115: min_value=1, step=1.
SetNumSkins ==
    /\ RunEnded
    /\ \E n \in (MinNumSkins..MaxSkins) \ {num_skins} :
          /\ num_skins' = n
          /\ buy' = Resize(buy, n, DefaultBuy)
          /\ sell' = Resize(sell, n, DefaultSell)
          /\ fee' = Resize(fee, n, DefaultFee)
    /\ UNCHANGED <<reinvestment_mode, sell_modifier, fee_modifier>>
    /\ StartRun

\* Lines 61-64: the user changes one number input of one row.  The Buy Price
\* input is disabled (line 59) where the price is reinvested.
SetNumberInput ==
    /\ RunEnded
    /\ \E j \in 1..num_skins, w \in {"buy", "sell", "fee"} :
          LET old == CASE w = "buy" -> buy[j] [] w = "sell" -> sell[j] [] w = "fee" -> fee[j]
              values == CASE w = "buy" -> BuyVals [] w = "sell" -> SellVals [] w = "fee" -> FeeVals
          IN \E v \in values \ {old} :
                /\ ~(w = "buy" /\ reinvestment_mode /\ j > 1)
                /\ buy' = IF w = "buy" THEN [buy EXCEPT ![j] = v] ELSE buy
                /\ sell' = IF w = "sell" THEN [sell EXCEPT ![j] = v] ELSE sell
                /\ fee' = IF w = "fee" THEN [fee EXCEPT ![j] = v] ELSE fee
    /\ UNCHANGED <<reinvestment_mode, sell_modifier, fee_modifier, num_skins>>
    /\ StartRun

Next ==
    \/ SkinInputRow
    \/ BuildBasic
    \/ OpenEditor
    \/ EditCell
    \/ DeleteRow
    \/ AddRow
    \/ Recompute
    \/ Ranking
    \/ CumulativeRoi
    \/ ToggleReinvestment
    \/ SetSellModifier
    \/ SetFeeModifier
    \/ SetNumSkins
    \/ SetNumberInput

Spec == Init /\ [][Next]_vars

(***************************************************************************)
(* Properties.                                                             *)
(***************************************************************************)
\* The sum of s[1..p] in plain float arithmetic (a NaN makes the sum NaN),
\* taken from the last term down.
RECURSIVE PrefixSum(_, _)
PrefixSum(s, p) == IF p = 0 THEN Zero ELSE FAdd(s[p], PrefixSum(s, p - 1))

\* The advanced tab's table has been recomputed in this run.
Recomputed == pc \in {"ranking", "cum_roi", "done"}

\* C1: in the pricing pass the Buy Price of item p is the previous item's Net
\* Received when reinvestment mode is on and p > 1 (also when that value was
\* clamped to 0), and the item's own Buy Price input otherwise.
C1_ReinvestmentFold ==
    \A p \in 1..Len(skin_data) :
        skin_data[p]["Buy Price"] =
            IF reinvestment_mode /\ p > 1
            THEN skin_data[p - 1]["Net Received"]
            ELSE Num(buy[p])

\* Two items priced with reinvestment on; the first one's net proceeds were
\* negative and clamped to 0, and the second one's Buy Price is that 0 and not
\* its own input.
C1_Witness ==
    /\ reinvestment_mode
    /\ Len(skin_data) = 2
    /\ FLt(NetReceivedUnclamped(skin_data[1]["Sell Price"], skin_data[1]["Fee %"]), Zero)
    /\ skin_data[1]["Net Received"] = Zero
    /\ skin_data[2]["Buy Price"] = Zero
    /\ buy[2] # 0

\* C2: every priced item has Fee % >= 0 and Net Received >= 0, also when
\* fee + fee modifier is below 0 or above 100, and no item is rejected: when
\* the loop has ended every item 1..num_skins has its row.
C2_Clamped ==
    /\ \A p \in 1..Len(skin_data) :
          /\ IsFin(skin_data[p]["Fee %"])
          /\ IsFin(skin_data[p]["Net Received"])
          /\ ~FLt(skin_data[p]["Fee %"], Zero)
          /\ ~FLt(skin_data[p]["Net Received"], Zero)
    /\ pc = "loop" => (fault = "none" /\ Len(skin_data) = i - 1)
    /\ pc # "loop" => Len(skin_data) = num_skins

\* Two items priced in one pass with fee + fee modifier above 100: the net
\* proceeds before clamping are negative.
C2_Witness ==
    /\ Len(skin_data) = 2
    /\ fee[1] + fee_modifier > MaxFee
    /\ fee[2] + fee_modifier < MaxFee
    /\ FLt(NetReceivedUnclamped(skin_data[1]["Sell Price"], skin_data[1]["Fee %"]), Zero)
    /\ skin_data[1]["Net Received"] = Zero

\* C3: for every priced item Profit = Net Received - Buy Price; ROI % is 0
\* when Buy Price is 0, and ROI % * Buy Price = Profit * 100 when Buy Price > 0.
C3_Roi ==
    \A p \in 1..Len(skin_data) :
        LET row == skin_data[p] IN
        /\ row["Profit"] = FSub(row["Net Received"], row["Buy Price"])
        /\ IsFin(row["ROI %"])
        /\ row["Buy Price"] = Zero => row["ROI %"] = Zero
        /\ FLt(Zero, row["Buy Price"]) =>
              FMul(row["ROI %"], row["Buy Price"]) = FMul(row["Profit"], Num(100))

\* A pass with an item bought for 0 that sold for more (ROI % 0 although the
\* profit is not) and an item bought for more than 0 with a profit.
C3_Witness ==
    /\ Len(skin_data) = 2
    /\ skin_data[1]["Buy Price"] = Zero
    /\ FLt(Zero, skin_data[1]["Profit"])
    /\ FLt(Zero, skin_data[2]["Buy Price"])
    /\ skin_data[2]["ROI %"] # Zero

\* C4: once the basic table is built, total_invested is the sum of the Buy
\* Price column, total_money_received the sum of the Net Received column,
\* total_profit their difference, and total_roi is total_profit /
\* total_invested * 100 when total_invested > 0 and 0 otherwise.
C4_Totals ==
    pc # "loop" =>
        /\ Len(df_basic) = num_skins
        /\ totals.total_invested = PrefixSum(Column(df_basic, "Buy Price"), Len(df_basic))
        /\ totals.total_money_received =
              PrefixSum(Column(df_basic, "Net Received"), Len(df_basic))
        /\ totals.total_profit = FSub(totals.total_money_received, totals.total_invested)
        /\ IsFin(totals.total_roi)
        /\ FLt(Zero, totals.total_invested) =>
              FMul(totals.total_roi, totals.total_invested) =
                  FMul(totals.total_profit, Num(100))
        /\ ~FLt(Zero, totals.total_invested) => totals.total_roi = Zero

\* Totals of two items with different Buy Prices, money invested and a loss.
C4_Witness ==
    /\ pc = "done"
    /\ Len(df_basic) = 2
    /\ df_basic[1]["Buy Price"] # df_basic[2]["Buy Price"]
    /\ FLt(Zero, totals.total_invested)
    /\ FLt(totals.total_profit, Zero)
    /\ FLt(Zero, totals.total_money_received)

\* C5: when the item sequence is empty the recomputation completes without a
\* fault, its result is empty and the four totals are 0.
C5_EmptyPassCompletes ==
    (pc \in {"ranking", "cum_roi", "done", "fault"} /\ Len(edited_df) = 0) =>
        /\ fault = "none"
        /\ df_adv = <<>>
        /\ totals.total_invested = Zero
        /\ totals.total_money_received = Zero
        /\ totals.total_profit = Zero
        /\ totals.total_roi = Zero

\* C6: after the recomputation of the advanced tab every row's Net Received,
\* Profit and ROI % are what the pricing formulas of skin_input_row give from
\* the row's Buy Price, Sell Price and Fee % cells.
C6_EditBackAgreesWithForward ==
    Recomputed =>
        \A p \in 1..Len(df_adv) :
            LET row == df_adv[p]
                net == PyMax0(EditedNet(row))
                profit == Profit(net, row["Buy Price"])
            IN /\ row["Net Received"] = net
               /\ row["Profit"] = profit
               /\ row["ROI %"] = Roi(profit, row["Buy Price"])

\* The grid with its derived cells emptied.
StripDerived(grid) ==
    [p \in 1..Len(grid) |->
        [c \in DOMAIN grid[p] |-> IF c \in DerivedColumns THEN NaN ELSE grid[p][c]]]

\* C7: the recomputation's result is the one the same grid with its derived
\* cells (Net Received, Profit, ROI %, Cumulative Money) emptied gives: what
\* the user typed into a derived cell is overwritten, and grids that differ
\* only in derived cells give the same table.
C7_DerivedCellsOverwritten ==
    [][(pc = "editor" /\ pc' = "ranking") =>
          df_adv' = EditBack(StripDerived(edited_df))]_vars

\* A recomputed table after one edit that changed no row count and no raw
\* cell (no raw cell held the value a raw edit types): the edit was made in a
\* derived cell, and the table is the one the unedited grid gives.
C7_Witness ==
    /\ pc = "ranking"
    /\ n_edits = 1
    /\ Len(df_adv) = 2
    /\ Len(df_basic) = 2
    /\ \A p \in 1..2 :
          /\ df_basic[p]["Buy Price"] # Zero
          /\ df_basic[p]["Sell Price"] # Num(200)
          /\ df_basic[p]["Fee %"] # Num(150)
          /\ \A c \in RawColumns : df_adv[p][c] = df_basic[p][c]
          /\ \A c \in DerivedColumns : df_adv[p][c] # Num(7)

\* Cumulative Money of every row of df is the first row's Buy Price plus the
\* sum of the Profit of the rows up to it.
CumulativeMoneyIsFirstBuyPlusProfits(df) ==
    \A p \in 1..Len(df) :
        df[p]["Cumulative Money"] =
            FAdd(df[1]["Buy Price"], PrefixSum(Column(df, "Profit"), p))

\* C8: in the basic table and in the recomputed advanced table, Cumulative
\* Money of row p is the first row's Buy Price plus the sum of the Profit of
\* rows 1..p, in entry order.
C8_CumulativeMoney ==
    /\ CumulativeMoneyIsFirstBuyPlusProfits(df_basic)
    /\ Recomputed => CumulativeMoneyIsFirstBuyPlusProfits(df_adv)

\* Two priced items with different Buy Prices and profits that are not 0, in
\* both tables.
C8_Witness ==
    /\ pc = "done"
    /\ Len(df_basic) = 2
    /\ Len(df_adv) = 2
    /\ df_basic[1]["Buy Price"] # df_basic[2]["Buy Price"]
    /\ df_adv[1]["Buy Price"] # df_adv[2]["Buy Price"]
    /\ \A p \in 1..2 : IsFin(df_adv[p]["Profit"]) /\ df_adv[p]["Profit"] # Zero
    /\ \A p \in 1..2 : df_basic[p]["Profit"] # Zero

\* The Skin Num cells of df that hold a number ascend with the position.
AscendingSkinNum(df) ==
    \A p, q \in 1..Len(df) :
        (p < q /\ IsFin(df[p]["Skin Num"]) /\ IsFin(df[q]["Skin Num"])) =>
            FLt(df[p]["Skin Num"], df[q]["Skin Num"])

\* C9: the pricing pass puts item p at position p, and every table the
\* cumulative sums and the chaining are computed over stays in ascending
\* Skin Num order, also after the ranking sorted by Profit is built.
C9_EntryOrder ==
    /\ \A p \in 1..Len(skin_data) : skin_data[p]["Skin Num"] = Num(p)
    /\ \A p \in 1..Len(df_basic) : df_basic[p]["Skin Num"] = Num(p)
    /\ AscendingSkinNum(edited_df)
    /\ AscendingSkinNum(df_adv)

\* A finished run whose ranking starts with another item than the table does:
\* the sort by Profit did reorder the rows it ranks.
C9_Witness ==
    /\ pc = "done"
    /\ Len(df_adv) = 2
    /\ Len(ranking) = 2
    /\ ranking[1]["Skin"] # df_adv[1]["Skin"]
    /\ FLt(ranking[2]["Profit"], ranking[1]["Profit"])

====
